---------------------------- MODULE Spec2Model ----------------------------
(***************************************************************************)
(* Model of StudentAttendanceSystem (src/student_attendance_system.py):    *)
(* the identity codec (parse_name_id), the recognition smoother            *)
(* (update_recognition_buffer), the attendance ledger (record_attendance,  *)
(* load_today_attendance) and the per-face body of the frame loop (run).   *)
(*                                                                         *)
(* Strings are sequences of one-character strings, so that splitting and   *)
(* joining are computed, not assumed.  A confidence is a rational          *)
(* <<numerator, denominator>>; the text written to the file is its value   *)
(* in tenths, as "%.1f" prints it.                                         *)
(***************************************************************************)
EXTENDS Integers, Sequences, FiniteSets

VARIABLES
    today_attendance,    \* self.today_attendance: set of composite keys
    recognition_buffer,  \* self.recognition_buffer: face_id -> list of (name_id, confidence)
    attendance_file,     \* the rows of attendance.csv after the header
    now,                 \* the calendar date datetime.now() gives
    today,               \* the date load_today_attendance last filtered on
    written,             \* (date, key) pairs record_attendance appended a row for
    ret,                 \* what the last operation did and returned
    codec                \* input and result of the last parse_name_id call

vars == <<today_attendance, recognition_buffer, attendance_file, now, today,
          written, ret, codec>>

ledgerVars == <<today_attendance, attendance_file, now, today, written>>

-----------------------------------------------------------------------------
(* Bounds of the model *)

MaxRows == 3      \* rows the file may hold before appends are cut off
MaxDay == 2       \* the session starts on day 1 and may run into day MaxDay
MaxLen == 3       \* longest name drawn for the codec
MaxIdLen == 2     \* longest student_id drawn for the codec

(* Program constants *)

buffer_threshold == 3
confidence_threshold == 100

-----------------------------------------------------------------------------
(* Identity codec *)

Sep == "_"
DefaultId == <<"0", "0", "0">>
\* "X" stands for the name of the sentinel key the loop substitutes
UnknownKey == <<"X", "_", "0", "0", "0">>

HasSep(s) == \E i \in 1..Len(s) : s[i] = Sep

LastSep(s) == CHOOSE i \in 1..Len(s) :
                 /\ s[i] = Sep
                 /\ \A j \in (i+1)..Len(s) : s[j] # Sep

FirstSep(s) == CHOOSE i \in 1..Len(s) :
                  /\ s[i] = Sep
                  /\ \A j \in 1..(i-1) : s[j] # Sep

\* a plausible slip: split("_", 1) instead of rsplit("_", 1)
parse_name_id_split(name_id) ==
    IF HasSep(name_id)
    THEN <<SubSeq(name_id, 1, FirstSep(name_id) - 1),
           SubSeq(name_id, FirstSep(name_id) + 1, Len(name_id))>>
    ELSE <<name_id, DefaultId>>

parse_name_id(name_id) ==
    IF HasSep(name_id)
    THEN <<SubSeq(name_id, 1, LastSep(name_id) - 1),
           SubSeq(name_id, LastSep(name_id) + 1, Len(name_id))>>
    ELSE <<name_id, DefaultId>>

\* the f-string of load_today_attendance: f"{row[2]}_{row[3]}"
JoinKey(name, student_id) == name \o <<Sep>> \o student_id

-----------------------------------------------------------------------------
(* Recognition smoother *)

None == <<>>    \* the (None, None) result of update_recognition_buffer

Slots == {"face_0"}                      \* f"face_{i}" of the frame loop
SmootherSlots == {"face_0", "face_1"}    \* slots of the smoother on its own

KeyA == <<"a">>                          \* a label without separator
KeyA0 == <<"a", "_", "0", "0", "0">>
KeyB == <<"b", "_", "1">>

\* labels.pkl: label -> composite key
label_map == [l \in {0, 1} |-> IF l = 0 THEN KeyA ELSE KeyB]
\* model.predict returns a trained label, and train_model.py maps each one
Labels == DOMAIN label_map
Confidences == {40, 120}                 \* what model.predict may return

SmootherKeys == {KeyA0, KeyB, UnknownKey}
SmootherConfidences == {40, 42}

NamesOf(buf) == [i \in 1..Len(buf) |-> buf[i][1]]

\* names.count(n)
Count(names, n) == Cardinality({i \in 1..Len(names) : names[i] = n})

\* the list after the append and the pop(0)
Window(face_id, name_id, confidence) ==
    LET old == IF face_id \in DOMAIN recognition_buffer
               THEN recognition_buffer[face_id] ELSE <<>>
        buf == Append(old, <<name_id, confidence>>)
    IN  IF Len(buf) > buffer_threshold THEN Tail(buf) ELSE buf

\* max(set(names), key=names.count): the first maximal element in the set's
\* enumeration order, which may be any element of maximal count
MostCommon(names) ==
    {n \in {names[i] : i \in 1..Len(names)} :
        \A m \in {names[i] : i \in 1..Len(names)} : Count(names, m) <= Count(names, n)}

RECURSIVE SumConf(_, _)
\* sum(item[1] for item in buffer if item[0] == most_common_name)
SumConf(buf, n) ==
    IF buf = <<>> THEN 0
    ELSE (IF Head(buf)[1] = n THEN Head(buf)[2] ELSE 0) + SumConf(Tail(buf), n)

AvgConfidence(buf, n) == <<SumConf(buf, n), Count(NamesOf(buf), n)>>

\* a plausible slip: the quorum set to K instead of K-1
QuorumReached_all(names, n) == Count(names, n) >= buffer_threshold

QuorumReached(names, n) == Count(names, n) >= buffer_threshold - 1

\* the values the call may return for the window w
StableResults(w) ==
    IF Len(w) >= buffer_threshold
    THEN {IF QuorumReached(NamesOf(w), mc)
          THEN <<mc, AvgConfidence(w, mc)>> ELSE None : mc \in MostCommon(NamesOf(w))}
    ELSE {None}

update_recognition_buffer(face_id, name_id, confidence, result) ==
    LET w == Window(face_id, name_id, confidence)
    IN  /\ result \in StableResults(w)
        /\ recognition_buffer' =
              [f \in DOMAIN recognition_buffer \cup {face_id} |->
                  IF f = face_id THEN w ELSE recognition_buffer[f]]

-----------------------------------------------------------------------------
(* Attendance ledger *)

Time == "HH:MM:SS"     \* time_str; nothing reads it back

\* f"{confidence:.1f}" as a number of tenths (no tie occurs for the
\* denominators 1..buffer_threshold)
Format1f(c) == (20 * c[1] + c[2]) \div (2 * c[2])

Row(date, name_id, confidence) ==
    <<date, Time, parse_name_id(name_id)[1], parse_name_id(name_id)[2],
      Format1f(confidence)>>

\* the keys collected from the first n rows for the date d
KeysOfRows(rows, n, d) ==
    {JoinKey(rows[i][3], rows[i][4]) :
        i \in {j \in 1..n : Len(rows[j]) >= 4 /\ rows[j][1] = d}}

NoRet == [op |-> "init", face_id |-> "", name_id |-> <<>>, stable |-> None,
          called |-> FALSE, outcome |-> "", returned |-> "", ok |-> TRUE]

\* the read goes through n rows; not ok: an exception ends it there
load_today_attendance(n, ok) ==
    /\ n \in 0..Len(attendance_file)
    /\ ok => n = Len(attendance_file)
    /\ today' = now
    /\ today_attendance' = KeysOfRows(attendance_file, n, now)
    /\ UNCHANGED <<attendance_file, now, written>>

\* which return statement record_attendance reaches
RecordOutcome(name_id, appendOk) ==
    IF name_id \in today_attendance THEN "already"
    ELSE IF appendOk THEN "recorded" ELSE "error"

\* a plausible slip: the membership test left out
record_attendance_nocheck(name_id, confidence, appendOk) ==
    IF appendOk
    THEN /\ Len(attendance_file) < MaxRows
         /\ attendance_file' = Append(attendance_file, Row(now, name_id, confidence))
         /\ today_attendance' = today_attendance \cup {name_id}
         /\ written' = written \cup {<<now, name_id>>}
         /\ UNCHANGED <<now, today>>
    ELSE UNCHANGED ledgerVars

\* a plausible slip: the file opened with mode "w" instead of "a"
record_attendance_truncate(name_id, confidence, appendOk) ==
    CASE RecordOutcome(name_id, appendOk) = "already" -> UNCHANGED ledgerVars
      [] RecordOutcome(name_id, appendOk) = "error" -> UNCHANGED ledgerVars
      [] OTHER ->
            /\ Len(attendance_file) < MaxRows
            /\ attendance_file' = <<Row(now, name_id, confidence)>>
            /\ today_attendance' = today_attendance \cup {name_id}
            /\ written' = written \cup {<<now, name_id>>}
            /\ UNCHANGED <<now, today>>

\* a plausible slip: the set updated before the write
record_attendance_updatefirst(name_id, confidence, appendOk) ==
    CASE RecordOutcome(name_id, appendOk) = "already" -> UNCHANGED ledgerVars
      [] RecordOutcome(name_id, appendOk) = "error" ->
            /\ today_attendance' = today_attendance \cup {name_id}
            /\ UNCHANGED <<attendance_file, now, today, written>>
      [] OTHER ->
            /\ Len(attendance_file) < MaxRows
            /\ attendance_file' = Append(attendance_file, Row(now, name_id, confidence))
            /\ today_attendance' = today_attendance \cup {name_id}
            /\ written' = written \cup {<<now, name_id>>}
            /\ UNCHANGED <<now, today>>

record_attendance(name_id, confidence, appendOk) ==
    CASE RecordOutcome(name_id, appendOk) = "already" -> UNCHANGED ledgerVars
      [] RecordOutcome(name_id, appendOk) = "error" -> UNCHANGED ledgerVars
      [] OTHER ->
            /\ Len(attendance_file) < MaxRows
            /\ attendance_file' = Append(attendance_file, Row(now, name_id, confidence))
            /\ today_attendance' = today_attendance \cup {name_id}
            /\ written' = written \cup {<<now, name_id>>}
            /\ UNCHANGED <<now, today>>

\* a plausible slip: the exception let through to the caller
RecordReturn_raise(outcome) ==
    CASE outcome = "recorded" -> "True"
      [] outcome = "error" -> "StorageError"
      [] OTHER -> "False"

\* what the caller of record_attendance observes
RecordReturn(outcome) ==
    CASE outcome = "recorded" -> "True"
      [] OTHER -> "False"

-----------------------------------------------------------------------------
(* The session: construction, the frame loop, the reload key, the calendar *)

\* a file left by earlier runs: nothing, or a blank line and a row of day 0
InitialFiles == {<<>>, << <<>>, Row(0, KeyB, <<40, 1>>) >>}

NoCodec == [op |-> "none", name |-> <<>>, student_id |-> <<>>, key |-> <<>>,
            out |-> None]

\* __init__ and setup_system: load_today_attendance on the file as found
Init ==
    /\ attendance_file \in InitialFiles
    /\ now = 1
    /\ today = 1
    /\ today_attendance = KeysOfRows(attendance_file, Len(attendance_file), 1)
    /\ recognition_buffer = [f \in {} |-> <<>>]
    /\ written = {}
    /\ ret = NoRet
    /\ codec = NoCodec

\* label_map.get(label, unknown), then the confidence check
ObservedKey(label, confidence) ==
    IF confidence > confidence_threshold THEN UnknownKey
    ELSE IF label \in DOMAIN label_map THEN label_map[label] ELSE UnknownKey

\* a plausible slip: the sentinel not filtered out
IsRecordable_any(result) == result # None /\ result[1] # <<>>

\* if stable_name_id and stable_name_id != unknown
IsRecordable(result) ==
    /\ result # None
    /\ result[1] # <<>>
    /\ result[1] # UnknownKey

\* the body of the loop over the faces of a frame, for the face at index i
ProcessFace(face_id, label, confidence, appendOk) ==
    LET name_id == ObservedKey(label, confidence)
    IN  \E result \in StableResults(Window(face_id, name_id, confidence)) :
        /\ update_recognition_buffer(face_id, name_id, confidence, result)
        /\ IF IsRecordable(result)
           THEN /\ record_attendance(result[1], result[2], appendOk)
                /\ ret' = [op |-> "face", face_id |-> face_id, name_id |-> name_id,
                           stable |-> result, called |-> TRUE,
                           outcome |-> RecordOutcome(result[1], appendOk),
                           returned |-> RecordReturn(RecordOutcome(result[1], appendOk)),
                           ok |-> appendOk]
           ELSE /\ appendOk
                /\ UNCHANGED ledgerVars
                /\ ret' = [op |-> "face", face_id |-> face_id, name_id |-> name_id,
                           stable |-> result, called |-> FALSE,
                           outcome |-> "", returned |-> "", ok |-> TRUE]
        /\ UNCHANGED codec

\* key 'r': load_today_attendance
Reload(n, ok) ==
    /\ load_today_attendance(n, ok)
    /\ ret' = [NoRet EXCEPT !.op = "load", !.ok = ok]
    /\ UNCHANGED <<recognition_buffer, codec>>

\* midnight passes while the session runs
Tick ==
    /\ now < MaxDay
    /\ now' = now + 1
    /\ ret' = [NoRet EXCEPT !.op = "tick"]
    /\ UNCHANGED <<today_attendance, recognition_buffer, attendance_file, today,
                   written, codec>>

Next ==
    \/ \E face_id \in Slots, label \in Labels, confidence \in Confidences,
          appendOk \in BOOLEAN :
          ProcessFace(face_id, label, confidence, appendOk)
    \/ \E n \in 0..Len(attendance_file), ok \in BOOLEAN : Reload(n, ok)
    \/ Tick

Spec == Init /\ [][Next]_vars

-----------------------------------------------------------------------------
(* The smoother on its own: update_recognition_buffer called directly *)

Observe(face_id, name_id, confidence) ==
    \E result \in StableResults(Window(face_id, name_id, confidence)) :
        /\ update_recognition_buffer(face_id, name_id, confidence, result)
        /\ ret' = [NoRet EXCEPT !.op = "update", !.face_id = face_id,
                                !.name_id = name_id, !.stable = result]
        /\ UNCHANGED <<ledgerVars, codec>>

InitSmoother ==
    /\ attendance_file = <<>>
    /\ now = 1
    /\ today = 1
    /\ today_attendance = {}
    /\ recognition_buffer = [f \in {} |-> <<>>]
    /\ written = {}
    /\ ret = NoRet
    /\ codec = NoCodec

NextSmoother ==
    \E face_id \in SmootherSlots, name_id \in SmootherKeys,
       confidence \in SmootherConfidences : Observe(face_id, name_id, confidence)

SpecSmoother == InitSmoother /\ [][NextSmoother]_vars

-----------------------------------------------------------------------------
(* The codec on its own: parse_name_id applied to bounded strings *)

SeqsUpTo(S, n) == UNION {[1..k -> S] : k \in 0..n}

NameChars == {"a", Sep}
IdChars == {"1", Sep}

InitCodec ==
    /\ attendance_file = <<>>
    /\ now = 1
    /\ today = 1
    /\ today_attendance = {}
    /\ recognition_buffer = [f \in {} |-> <<>>]
    /\ written = {}
    /\ ret = NoRet
    /\ codec \in [op : {"input"}, name : SeqsUpTo(NameChars, MaxLen),
                  student_id : SeqsUpTo(IdChars, MaxIdLen), key : {<<>>},
                  out : {None}]

\* the key of (name, student_id) decoded
DecodeJoined ==
    /\ codec.op = "input"
    /\ codec' = [codec EXCEPT !.op = "joined",
                    !.key = JoinKey(codec.name, codec.student_id),
                    !.out = parse_name_id(JoinKey(codec.name, codec.student_id))]
    /\ UNCHANGED <<ledgerVars, recognition_buffer, ret>>

\* the name alone decoded as a key
DecodeBare ==
    /\ codec.op = "input"
    /\ codec' = [codec EXCEPT !.op = "bare", !.key = codec.name,
                    !.out = parse_name_id(codec.name)]
    /\ UNCHANGED <<ledgerVars, recognition_buffer, ret>>

NextCodec == DecodeJoined \/ DecodeBare

SpecCodec == InitCodec /\ [][NextCodec]_vars

-----------------------------------------------------------------------------
(* Properties *)

\* the rows of the file that carry a date, a name and a student_id
FullRows(rows) == {i \in 1..Len(rows) : Len(rows[i]) >= 4}

\* whether the file holds a row of date d for the person key k decodes to
HasRowFor(rows, d, k) ==
    \E i \in FullRows(rows) :
        /\ rows[i][1] = d
        /\ <<rows[i][3], rows[i][4]>> = parse_name_id(k)

\* the step was a record_attendance call made by the frame loop
Recorded(r) == r.op = "face" /\ r.called

\* occurrences of name X in the window w, and the sum of X's confidences
Occ(w, X) == Cardinality({i \in 1..Len(w) : w[i][1] = X})
Term(w, i, X) == IF i <= Len(w) /\ w[i][1] = X THEN w[i][2] ELSE 0
SumOf(w, X) == Term(w, 1, X) + Term(w, 2, X) + Term(w, 3, X)

(* C1: the file never holds two rows with the same date, name and
   student_id. *)
C1_AtMostOneRowPerPersonPerDay ==
    \A i, j \in FullRows(attendance_file) :
        (/\ attendance_file[i][1] = attendance_file[j][1]
         /\ attendance_file[i][3] = attendance_file[j][3]
         /\ attendance_file[i][4] = attendance_file[j][4]) => i = j

(* C2 as stated: whenever record_attendance is called with a key for which
   the file holds no row of the current date, and the append does not fail,
   the row is appended -- in every session, also one that runs across a
   change of date without a reload. *)
C2_FirstSightingAlwaysRecorded ==
    [][(/\ Recorded(ret')
        /\ ret'.ok
        /\ ~HasRowFor(attendance_file, now, ret'.stable[1]))
       => attendance_file' =
             Append(attendance_file, Row(now, ret'.stable[1], ret'.stable[2]))]_vars

(* C2 amended: the same, for calls made while the current date is still the
   date of the last load_today_attendance. *)
C2_FirstSightingRecordedSinceLoad ==
    [][(/\ Recorded(ret')
        /\ ret'.ok
        /\ today = now
        /\ ~HasRowFor(attendance_file, now, ret'.stable[1]))
       => attendance_file' =
             Append(attendance_file, Row(now, ret'.stable[1], ret'.stable[2]))]_vars

\* a person recorded on day 1 is recorded again on day 2, after a reload
C2_Witness ==
    /\ Recorded(ret)
    /\ ret.outcome = "recorded"
    /\ now = 2
    /\ today = 2
    /\ <<1, ret.stable[1]>> \in written

(* C3: for a key already in today_attendance, record_attendance returns
   False and changes neither the number of rows nor today_attendance. *)
C3_IdempotentRecording ==
    [][(Recorded(ret') /\ ret'.stable[1] \in today_attendance)
       => /\ ret'.returned = "False"
          /\ Len(attendance_file') = Len(attendance_file)
          /\ today_attendance' = today_attendance]_vars

C3_Witness ==
    /\ Recorded(ret)
    /\ ret.outcome = "already"
    /\ ret.stable[1] \in today_attendance

(* C4: with K = 3, update_recognition_buffer returns X exactly when the
   slot's window holds K observations of which at least K-1 are X, then with
   the mean of X's confidences in the window, and (None, None) otherwise,
   whichever maximal name the enumeration of the set yields. *)
C4_QuorumRule ==
    ret.op = "update" =>
        LET w == recognition_buffer[ret.face_id]
        IN  /\ Len(w) <= buffer_threshold
            /\ w[Len(w)] = <<ret.name_id, w[Len(w)][2]>>
            /\ \A X \in SmootherKeys :
                  (ret.stable # None /\ ret.stable[1] = X)
                  <=> (Len(w) = buffer_threshold /\ Occ(w, X) >= buffer_threshold - 1)
            /\ ret.stable # None =>
                  /\ ret.stable[1] \in SmootherKeys
                  /\ ret.stable[2][2] > 0
                  /\ ret.stable[2][1] * Occ(w, ret.stable[1])
                        = ret.stable[2][2] * SumOf(w, ret.stable[1])

\* two of three agree, with confidences 40 and 42: the mean is 41
C4_Witness ==
    /\ ret.op = "update"
    /\ ret.stable # None
    /\ Occ(recognition_buffer[ret.face_id], ret.stable[1]) = 2
    /\ ret.stable[2] = <<82, 2>>

(* C5: after a successful reload, today_attendance is the set of the keys
   record_attendance wrote today, and has as many members. *)
C5_ReloadConsistency ==
    (ret.op = "load" /\ ret.ok) =>
        /\ today_attendance = {p[2] : p \in {q \in written : q[1] = now}}
        /\ Cardinality(today_attendance)
              = Cardinality({q \in written : q[1] = now})

(* C6: a failed append leaves today_attendance and the file as they were,
   the key not added; and a call for the same key in the next recognition
   cycle whose append succeeds writes the row and returns True. *)
C6_WriteThenUpdate ==
    [][/\ (Recorded(ret') /\ ret'.outcome = "error")
          => /\ today_attendance' = today_attendance
             /\ ret'.stable[1] \notin today_attendance'
             /\ attendance_file' = attendance_file
       /\ (/\ Recorded(ret) /\ ret.outcome = "error"
           /\ Recorded(ret') /\ ret'.stable[1] = ret.stable[1] /\ ret'.ok)
          => /\ ret'.returned = "True"
             /\ attendance_file' =
                   Append(attendance_file, Row(now, ret'.stable[1], ret'.stable[2]))
             /\ ret'.stable[1] \in today_attendance']_vars

C6_Witness ==
    /\ Recorded(ret)
    /\ ret.outcome = "error"
    /\ ~ret.ok
    /\ ret.stable[1] \notin today_attendance

(* C7: a reload that fails leaves today_attendance as it was. *)
C7_FailedReloadKeepsState ==
    [][(ret'.op = "load" /\ ~ret'.ok)
       => today_attendance' = today_attendance]_vars

(* C8 as stated: what the caller observes for a failed append differs from
   what it observes for a key already recorded today. *)
C8_FailureDistinguishable ==
    (Recorded(ret) /\ ret.outcome = "error")
        => ret.returned # RecordReturn("already")

(* C8 amended: a failed append is caught inside record_attendance; the
   caller gets False, the value it also gets for a key already recorded. *)
C8_FailureReturnsFalse ==
    (Recorded(ret) /\ ret.outcome \in {"error", "already"})
        => ret.returned = "False"

C8_Witness ==
    /\ Recorded(ret)
    /\ ret.outcome = "error"
    /\ ret.returned = "False"

(* C9: for a student_id without separator, the key name_student_id decodes
   to (name, student_id), whatever separators the name holds; a key without
   separator decodes to (key, "000"). *)
C9_CodecRoundTrip ==
    /\ (codec.op = "joined" /\ \A i \in 1..Len(codec.student_id) :
                                    codec.student_id[i] # Sep)
          => codec.out = <<codec.name, codec.student_id>>
    /\ (codec.op = "bare" /\ \A i \in 1..Len(codec.key) : codec.key[i] # Sep)
          => codec.out = <<codec.key, DefaultId>>

\* a name that itself holds a separator comes back whole
C9_Witness ==
    /\ codec.op = "joined"
    /\ \E i \in 1..Len(codec.name) : codec.name[i] = Sep
    /\ Len(codec.student_id) > 0
    /\ \A i \in 1..Len(codec.student_id) : codec.student_id[i] # Sep
    /\ codec.out = <<codec.name, codec.student_id>>

(* C10: in the frame loop a row is appended only in a step in which
   update_recognition_buffer returned a name that holds at least K-1 of the
   slot's K observations; the name is never the unknown sentinel, which
   stands in the buffer for every observation above confidence_threshold,
   and the row appended is that name's. *)
C10_OnlyStableRecognitionWrites ==
    [][/\ attendance_file' # attendance_file
          => /\ ret'.op = "face"
             /\ ret'.stable # None
             /\ ret'.stable[1] # UnknownKey
             /\ Len(recognition_buffer'[ret'.face_id]) = buffer_threshold
             /\ Occ(recognition_buffer'[ret'.face_id], ret'.stable[1])
                   >= buffer_threshold - 1
             /\ attendance_file' =
                   Append(attendance_file, Row(now, ret'.stable[1], ret'.stable[2]))
             /\ <<attendance_file'[Len(attendance_file')][3],
                  attendance_file'[Len(attendance_file')][4]>>
                   # parse_name_id(UnknownKey)
       /\ \A f \in DOMAIN recognition_buffer' :
             \A i \in 1..Len(recognition_buffer'[f]) :
                recognition_buffer'[f][i][2] > confidence_threshold
                   => recognition_buffer'[f][i][1] = UnknownKey]_vars

\* a row was just written while the sentinel sits in the same window
C10_Witness ==
    /\ Recorded(ret)
    /\ ret.outcome = "recorded"
    /\ Occ(recognition_buffer[ret.face_id], UnknownKey) = 1
    /\ Len(attendance_file) > 0

=============================================================================
